---------------------------- MODULE Spec2Model ----------------------------
(***************************************************************************)
(* Model of the mantra voice-editing extension (m7yash/mantra).            *)
(*                                                                         *)
(*   Spec       one listening session: Model.transcribeStream              *)
(*              (src/src/model.ts:384-534), driven by provider events,     *)
(*              input-stream events and the idle timer.                    *)
(*   FairSpec   Spec, with the event loop running every due timer.         *)
(*   SpecStitch the pure function appendWithOverlap                        *)
(*              (src/src/model.ts:487-496) applied twice.                  *)
(*   SpecDiff   the pure function computeChangeHints                       *)
(*              (src/src/extension.ts:258-343).                            *)
(*   SpecLoop   the listening loop of the mantra.start command             *)
(*              (src/src/extension.ts:604-729) with startMicStream         *)
(*              (src/src/recorder.ts:107-166) and                          *)
(*              replaceDocumentWithHighlight (src/src/extension.ts:349-468)*)
(*   FairLoop   SpecLoop, with the event loop running every due timer.     *)
(*   SpecRestart a listening session in flight while startMicStream        *)
(*              (src/src/recorder.ts:107-132) is called again.             *)
(*                                                                         *)
(* JavaScript strings are modelled as sequences of one-character strings,  *)
(* so that trim, slice, endsWith, split and indexOf are computed and not   *)
(* assumed.                                                                *)
(***************************************************************************)
EXTENDS Integers, Sequences, FiniteSets, TLC

VARIABLES
  \* ---- one listening session (transcribeStream) ----
  trailingSilenceMs, \* configuration value read at model.ts:420
  chan,              \* provider websocket: "connecting" | "open" | "closed"
  opened,            \* the Open handler has run: inner handlers are registered
  inp,               \* audio input stream: "flowing" | "ended" | "errored"
  settled,           \* model.ts:402
  finalTranscript,   \* model.ts:401
  utterance,         \* model.ts:471
  lastTxt,           \* model.ts:472
  committed,         \* model.ts:473
  idleTimer,         \* model.ts:475, handle of the last armed timer, 0 = null
  timers,            \* pending timeouts of the event loop: set of [id, due]
  nextTimerId,       \* handle the next setTimeout returns
  outcome,           \* the caller's promise: "pending" | "resolved" | "rejected"
  result,            \* value the promise resolved with
  rejection,         \* reason the promise rejected with
  resolveCalls,      \* number of calls of resolve()
  rejectCalls,       \* number of calls of reject()
  closeCalls,        \* number of calls of connection.close()
  finalizeSent,      \* number of {type:'Finalize'} messages sent
  now,               \* clock, ms
  nEvents,           \* transcript events delivered so far
  \* ---- observation of the session (history variables) ----
  settledBy,         \* which path called resolve/reject last
  stitched,          \* reference fold of every finalized segment received
  lastTextAt,        \* time of the last transcript event with non-empty text
  lastEventAt,       \* time of the last transcript event of any kind
  lastStep,          \* what the last handler run was and what it did
  occurred,          \* one of the four terminating occurrences has happened
  \* ---- appendWithOverlap applied twice ----
  sBase, sNext, sOnce, sTwice, sPc,
  \* ---- computeChangeHints ----
  dOld, dNew, dHints, dPaired, dPc,
  \* ---- replaceDocumentWithHighlight ----
  aDoc,              \* editor.document.getText()
  aStale,            \* the document changed after the pending edit was requested
  aPc,               \* "idle" | "editing" (suspended at the await of line 361)
  aOld,              \* oldText, extension.ts:353
  aNew,              \* newText
  aHints,            \* result of computeChangeHints, extension.ts:354
  aRange,            \* entireRange, extension.ts:357-360, as two offsets
  aCall,             \* number of calls of replaceDocumentWithHighlight so far
  aTypes,            \* decoration types created and not disposed: [call, kind]
  aDecos,            \* decorations set on the editor: [call, kind, ranges]
  aTimers,           \* pending dispose timers: [call, left], left in ms
  aOutcome,          \* how the last edit ended: "none" | "applied" | ...
  \* ---- the loop of mantra.start ----
  lPc,               \* "loop" | "listening" | "routing" | "deciding" |
                     \* "applying" | "stopped"
  lPaused,           \* __mantraPaused, extension.ts:13
  lRec,              \* currentRecProcess is set, recorder.ts:5
  lIter,             \* iterations of the while loop started
  lTranscript,       \* transcript of this iteration, as a sequence of words
  lEditor,           \* editor of extension.ts:659 is not null
  lResult,           \* result.type of extension.ts:672
  lMessage,          \* the last message shown to the user
  itFailed,          \* this iteration: transcribeStream rejected
  itCmd,             \* this iteration: a command was executed
  itLlm,             \* this iteration: model.decide was called
  itReplace,         \* this iteration: replaceDocumentWithHighlight was called
  itAcquired,        \* this iteration: decoration types were created
  itHandled,         \* this iteration: the utterance was handled as a command
  itSensitive,       \* this iteration: the secret guard flagged the file
  itChoice,          \* this iteration: the answer to the guard's dialog
  itProgress,        \* this iteration: the 'Listening...' notification of
                     \* extension.ts:617 is open (completeProgress not called)
  \* ---- the recorder process, recorder.ts ----
  rCur,              \* currentRecProcess, recorder.ts:5: a process id, 0 = null
  rKilled,           \* processes terminate() was called on
  rSpawned,          \* recorder processes spawned so far
  rPc,               \* the later call of startMicStream: "none" | "waiting" |
                     \* "spawned"
  \* ---- the commands mantra.start, mantra.pause, mantra.resume ----
  cPaused,           \* __mantraPaused, extension.ts:13
  cLoop,             \* per invocation of the mantra.start handler, where it
                     \* is: "none" | "keys" | "spawnWait" | "callback" |
                     \* "tail" | "done"
  cExited,           \* recorder processes that have exited
  cKeys,             \* groqApiKey and deepgramApiKey are both in memory,
                     \* extension.ts:8-9
  cChild             \* per invocation, the process its last call of
                     \* startMicStream spawned (child, recorder.ts:131), 0 = none

sessionVars == <<trailingSilenceMs, chan, opened, inp, settled, finalTranscript,
                 utterance, lastTxt, committed, idleTimer, timers, nextTimerId,
                 outcome, result, rejection, resolveCalls, rejectCalls,
                 closeCalls, finalizeSent, now, nEvents, settledBy, stitched,
                 lastTextAt, lastEventAt, lastStep, occurred>>
stitchVars == <<sBase, sNext, sOnce, sTwice, sPc>>
diffVars == <<dOld, dNew, dHints, dPaired, dPc>>
applyVars == <<aDoc, aStale, aPc, aOld, aNew, aHints, aRange, aCall, aTypes,
               aDecos, aTimers, aOutcome>>
loopVars == <<lPc, lPaused, lRec, lIter, lTranscript, lEditor, lResult,
              lMessage, itFailed, itCmd, itLlm, itReplace, itAcquired,
              itHandled, itSensitive, itChoice, itProgress>>
recVars == <<rCur, rKilled, rSpawned, rPc>>
cmdVars == <<cPaused, cLoop, cExited, cKeys, cChild>>
vars == <<sessionVars, stitchVars, diffVars, applyVars, loopVars, recVars,
          cmdVars>>

------------------------------------------------------------------------------
(* Bounds of the model *)

MaxEvents == 2
MaxTime == 1800

------------------------------------------------------------------------------
(* JavaScript string and number primitives *)

Max(a, b) == IF a >= b THEN a ELSE b
Min(a, b) == IF a <= b THEN a ELSE b
Abs(a) == IF a >= 0 THEN a ELSE 0 - a

EmptyStr == <<>>

IsWhitespace(ch) == ch \in {" ", "\n", "\r", "\t"}

RECURSIVE TrimStart(_)
TrimStart(s) ==
  IF s = EmptyStr THEN s
  ELSE IF IsWhitespace(Head(s)) THEN TrimStart(Tail(s)) ELSE s

RECURSIVE TrimEnd(_)
TrimEnd(s) ==
  IF s = EmptyStr THEN s
  ELSE IF IsWhitespace(s[Len(s)]) THEN TrimEnd(SubSeq(s, 1, Len(s) - 1)) ELSE s

\* String.prototype.trim
Trim(s) == TrimEnd(TrimStart(s))

\* s.slice(k) and s.slice(0, i) for 0 <= k, i
SliceFrom(s, k) == SubSeq(s, Min(k, Len(s)) + 1, Len(s))
SliceTo(s, i) == SubSeq(s, 1, Min(i, Len(s)))

\* base.endsWith(suffix)
EndsWith(base, suffix) ==
  /\ Len(suffix) <= Len(base)
  /\ SubSeq(base, Len(base) - Len(suffix) + 1, Len(base)) = suffix

------------------------------------------------------------------------------
(* appendWithOverlap, model.ts:487-496 *)

\* the for loop of lines 492-494: i runs from max down to 1, first hit wins
RECURSIVE OverlapLoop(_, _, _)
OverlapLoop(base, next, i) ==
  IF i <= 0 THEN 0
  ELSE IF EndsWith(base, SliceTo(next, i)) THEN i
  ELSE OverlapLoop(base, next, i - 1)

appendNoOverlapRemoval(base, next) == base \o next

\* the loop run upwards: the shortest overlap wins instead of the longest
RECURSIVE OverlapLoopUp(_, _, _, _)
OverlapLoopUp(base, next, i, max) ==
  IF i > max THEN 0
  ELSE IF EndsWith(base, SliceTo(next, i)) THEN i
  ELSE OverlapLoopUp(base, next, i + 1, max)

appendShortestOverlap(base, next) ==
  IF base = EmptyStr THEN next
  ELSE base \o SliceFrom(next, OverlapLoopUp(base, next, 1,
                                              Min(Len(base), Len(next))))

appendWithOverlap(base, next) ==
  IF base = EmptyStr THEN next
  ELSE base \o SliceFrom(next, OverlapLoop(base, next, Min(Len(base), Len(next))))

\* a commit that replaces the committed text by the new segment
commitFinalReplace(base, txt) == txt

\* a commit that joins the segments with a space and removes no overlap
commitFinalSpaced(base, txt) ==
  IF base # EmptyStr THEN base \o <<" ">> \o txt ELSE txt

\* committed = committed ? appendWithOverlap(committed, txt) : txt, model.ts:509
commitFinal(base, txt) ==
  IF base # EmptyStr THEN appendWithOverlap(base, txt) ELSE txt

------------------------------------------------------------------------------
(* Reference operators the claims are stated with *)

\* k is an overlap of c and s: the last k characters of c are the first k of s
IsOverlap(c, s, k) ==
  /\ k <= Len(c) /\ k <= Len(s)
  /\ SubSeq(c, Len(c) - k + 1, Len(c)) = SubSeq(s, 1, k)

LongestOverlap(c, s) ==
  CHOOSE k \in 0..Min(Len(c), Len(s)) :
    /\ IsOverlap(c, s, k)
    /\ \A j \in 0..Min(Len(c), Len(s)) : IsOverlap(c, s, j) => j <= k

RefStitch(c, s) == c \o SubSeq(s, LongestOverlap(c, s) + 1, Len(s))

------------------------------------------------------------------------------
(* Inputs of a listening session *)

\* values of the mantra.trailingSilenceMs setting (model.ts:420)
CfgValues == {0, 1300}

\* alt.transcript of a provider Transcript message, before the trim of line 500
TranscriptTexts ==
  { <<>>, <<" ">>, <<"a">>, <<"a", "b">>, <<"b">>, <<"b", " ">> }

\* values the provider's Error event carries (typed any at model.ts:454): an
\* Error instance, or a plain string
ErrVals == { [isError |-> TRUE, msg |-> "socket hang up"],
             [isError |-> FALSE, msg |-> "bad frame"] }
\* a Node stream's 'error' event carries an Error instance
InputErrVals == { [isError |-> TRUE, msg |-> "EPIPE"] }
NoErr == [isError |-> FALSE, msg |-> ""]

\* how far the clock may advance between two handler runs
TickSteps == {600}

\* the record kept of a run of the Transcript handler, and the one kept of a
\* run of any other handler.  interim holds the argument of each onInterim
\* call; order lists what the handler did, in the order of its statements.
TranscriptStep ==
  [op |-> "Transcript", txt |-> EmptyStr, isFinal |-> FALSE,
   isSpeechFinal |-> FALSE, wasSettled |-> settled, interim |-> <<>>,
   armed |-> FALSE, order |-> <<>>]
OtherStep ==
  [op |-> "other", txt |-> EmptyStr, isFinal |-> FALSE,
   isSpeechFinal |-> FALSE, wasSettled |-> FALSE, interim |-> <<>>,
   armed |-> FALSE, order |-> <<>>]

------------------------------------------------------------------------------
(* transcribeStream, model.ts:384-534 *)

promiseVars == <<settled, outcome, result, rejection, resolveCalls,
                 rejectCalls, closeCalls, settledBy>>
timerVars == <<idleTimer, timers, nextTimerId>>

\* model.ts:418-421
trailingMsCfg == Max(100, trailingSilenceMs)

\* model.ts:484, the delay of the idle timer
IdleDelayNoFloor == trailingMsCfg + 200

IdleDelay == Max(1200, trailingMsCfg + 200)

\* err instanceof Error ? err : new Error(String(err)), model.ts:414
ToError(err) == IF err.isError THEN err ELSE [isError |-> TRUE, msg |-> err.msg]

\* model.ts:404-409.  by names the calling path (observation only).
safeResolveNoGuard(txt, by) ==
  /\ settled' = TRUE
  /\ closeCalls' = closeCalls + 1
  /\ resolveCalls' = resolveCalls + 1
  /\ outcome' = IF outcome = "pending" THEN "resolved" ELSE outcome
  /\ result' = IF outcome = "pending" THEN txt ELSE result
  /\ settledBy' = by
  /\ UNCHANGED <<rejectCalls, rejection>>

safeResolve(txt, by) ==
  IF settled THEN UNCHANGED promiseVars
  ELSE /\ settled' = TRUE
       /\ closeCalls' = closeCalls + 1
       /\ resolveCalls' = resolveCalls + 1
       /\ outcome' = IF outcome = "pending" THEN "resolved" ELSE outcome
       /\ result' = IF outcome = "pending" THEN txt ELSE result
       /\ settledBy' = by
       /\ UNCHANGED <<rejectCalls, rejection>>

\* model.ts:410-415
safeReject(err, by) ==
  IF settled THEN UNCHANGED promiseVars
  ELSE /\ settled' = TRUE
       /\ closeCalls' = closeCalls + 1
       /\ rejectCalls' = rejectCalls + 1
       /\ outcome' = IF outcome = "pending" THEN "rejected" ELSE outcome
       /\ rejection' = IF outcome = "pending" THEN ToError(err) ELSE rejection
       /\ settledBy' = by
       /\ UNCHANGED <<resolveCalls, result>>

\* a re-arm that forgets the clearTimeout of model.ts:477
resetIdleNoClear ==
  /\ timers' = timers \cup {[id |-> nextTimerId, due |-> now + IdleDelay]}
  /\ idleTimer' = nextTimerId
  /\ nextTimerId' = nextTimerId + 1

\* model.ts:476-485: clearTimeout of the previous handle, then setTimeout
resetIdle ==
  /\ timers' = {t \in timers : idleTimer = 0 \/ t.id # idleTimer}
                 \cup {[id |-> nextTimerId, due |-> now + IdleDelay]}
  /\ idleTimer' = nextTimerId
  /\ nextTimerId' = nextTimerId + 1

\* an interim preview that drops the committed text
previewNoCommitted(c, txt) == txt

\* the interim preview, model.ts:514
previewOf(c, txt) ==
  IF c # EmptyStr
    THEN (IF txt # EmptyStr THEN c \o <<" ">> \o txt ELSE c)
    ELSE txt

SessionFrame ==
  UNCHANGED <<stitchVars, diffVars, applyVars, loopVars, recVars, cmdVars>>

\* connection.on(Open), model.ts:456-473: registers the input handlers and the
\* Transcript and Close handlers, and declares utterance, lastTxt, committed
Open ==
  /\ chan = "connecting"
  /\ chan' = "open"
  /\ opened' = TRUE
  /\ utterance' = EmptyStr /\ lastTxt' = EmptyStr /\ committed' = EmptyStr
  /\ idleTimer' = 0
  /\ lastStep' = OtherStep
  /\ UNCHANGED <<trailingSilenceMs, inp, finalTranscript, timers, nextTimerId,
                 finalizeSent, now, nEvents, stitched, lastTextAt, lastEventAt>>
  /\ UNCHANGED promiseVars
  /\ UNCHANGED occurred
  /\ SessionFrame

\* connection.on(Transcript), model.ts:498-526
Transcript(raw, isFinal, isSpeechFinal) ==
  /\ chan = "open"
  /\ nEvents < MaxEvents
  /\ nEvents' = nEvents + 1
  /\ lastEventAt' = now
  /\ LET txt == Trim(raw)
         newCommitted ==
           IF isFinal THEN commitFinal(committed, txt) ELSE committed
         newUtterance ==
           IF isFinal THEN newCommitted ELSE previewOf(committed, txt)
     IN IF txt = EmptyStr
          THEN /\ lastStep' = [TranscriptStep EXCEPT
                                 !.isFinal = isFinal,
                                 !.isSpeechFinal = isSpeechFinal]
               /\ UNCHANGED <<committed, utterance, lastTxt, finalTranscript,
                              stitched, lastTextAt>>
               /\ UNCHANGED timerVars
               /\ UNCHANGED promiseVars
          ELSE /\ committed' = newCommitted
               /\ utterance' = newUtterance
               /\ lastTxt' = IF isFinal THEN EmptyStr ELSE txt
               /\ stitched' = IF isFinal THEN RefStitch(stitched, txt)
                                        ELSE stitched
               /\ lastTextAt' = now
               /\ resetIdle
               /\ IF isSpeechFinal
                    THEN /\ finalTranscript' = Trim(newUtterance)
                         /\ safeResolve(Trim(newUtterance), "speechFinal")
                    ELSE /\ UNCHANGED finalTranscript
                         /\ UNCHANGED promiseVars
               /\ lastStep' = [TranscriptStep EXCEPT
                                 !.txt = txt,
                                 !.isFinal = isFinal,
                                 !.isSpeechFinal = isSpeechFinal,
                                 !.interim = IF isSpeechFinal THEN <<>>
                                             ELSE <<newUtterance>>,
                                 !.armed = TRUE,
                                 !.order =
                                   IF isSpeechFinal
                                     THEN <<"update", "arm", "resolve">>
                                     ELSE <<"update", "arm", "interim">>]
  /\ UNCHANGED <<trailingSilenceMs, chan, opened, inp, finalizeSent, now>>
  /\ occurred' = (occurred \/ (isSpeechFinal /\ Trim(raw) # EmptyStr))
  /\ SessionFrame

\* The provider closes the socket.  The Close handler, model.ts:529-531, is
\* registered by the Open handler; without it the event has no listener.
Close ==
  /\ chan # "closed"
  /\ chan' = "closed"
  /\ IF opened /\ ~settled
       THEN safeResolve(IF finalTranscript # EmptyStr THEN finalTranscript
                                                      ELSE EmptyStr, "close")
       ELSE UNCHANGED promiseVars
  /\ lastStep' = OtherStep
  /\ UNCHANGED <<trailingSilenceMs, opened, inp, finalTranscript, utterance,
                 lastTxt, committed, finalizeSent, now, nEvents, stitched,
                 lastTextAt, lastEventAt>>
  /\ UNCHANGED timerVars
  /\ occurred' = TRUE
  /\ SessionFrame

\* connection.on(Error), model.ts:454, registered before the socket opens
ProviderError(e) ==
  /\ chan # "closed"
  /\ safeReject(e, "error")
  /\ lastStep' = OtherStep
  /\ UNCHANGED <<trailingSilenceMs, chan, opened, inp, finalTranscript,
                 utterance, lastTxt, committed, finalizeSent, now, nEvents,
                 stitched, lastTextAt, lastEventAt>>
  /\ UNCHANGED timerVars
  /\ occurred' = TRUE
  /\ SessionFrame

\* an 'end' handler that also resolves the session with the preview
InputEndResolves ==
  /\ inp = "flowing"
  /\ opened
  /\ inp' = "ended"
  /\ finalizeSent' = finalizeSent + 1
  /\ safeResolve(Trim(utterance), "inputEnd")
  /\ lastStep' = OtherStep
  /\ UNCHANGED <<trailingSilenceMs, chan, opened, finalTranscript, utterance,
                 lastTxt, committed, now, nEvents, stitched, lastTextAt,
                 lastEventAt>>
  /\ UNCHANGED timerVars
  /\ UNCHANGED occurred
  /\ SessionFrame

\* The input stream ends.  input.on('end'), model.ts:465-467, is registered
\* by the Open handler, together with the 'data' listener of model.ts:458
\* that starts the stream flowing: a stream nobody reads does not emit 'end'.
InputEnd ==
  /\ inp = "flowing"
  /\ opened
  /\ inp' = "ended"
  /\ finalizeSent' = finalizeSent + 1
  /\ lastStep' = OtherStep
  /\ UNCHANGED <<trailingSilenceMs, chan, opened, finalTranscript, utterance,
                 lastTxt, committed, now, nEvents, stitched, lastTextAt,
                 lastEventAt>>
  /\ UNCHANGED timerVars
  /\ UNCHANGED promiseVars
  /\ UNCHANGED occurred
  /\ SessionFrame

\* The input stream errors.  input.on('error'), model.ts:469, is registered
\* by the Open handler.
InputError(e) ==
  /\ inp = "flowing"
  /\ inp' = "errored"
  /\ IF opened THEN safeReject(e, "inputError") ELSE UNCHANGED promiseVars
  /\ lastStep' = OtherStep
  /\ UNCHANGED <<trailingSilenceMs, chan, opened, finalTranscript, utterance,
                 lastTxt, committed, finalizeSent, now, nEvents, stitched,
                 lastTextAt, lastEventAt>>
  /\ UNCHANGED timerVars
  /\ UNCHANGED occurred
  /\ SessionFrame

\* a timer callback that resolves with the committed text only
IdleFireCommittedOnly(t) ==
  /\ t \in timers
  /\ now >= t.due
  /\ timers' = timers \ {t}
  /\ IF ~settled /\ Trim(utterance) # EmptyStr
       THEN /\ finalTranscript' = Trim(committed)
            /\ safeResolve(Trim(committed), "idle")
       ELSE /\ UNCHANGED finalTranscript
            /\ UNCHANGED promiseVars
  /\ lastStep' = OtherStep
  /\ UNCHANGED <<trailingSilenceMs, chan, opened, inp, utterance, lastTxt,
                 committed, idleTimer, nextTimerId, finalizeSent, now, nEvents,
                 stitched, lastTextAt, lastEventAt>>
  /\ occurred' = (occurred \/ Trim(utterance) # EmptyStr)
  /\ SessionFrame

\* The callback of the idle timer, model.ts:479-484, run by the event loop at
\* or after the time the timer is due
IdleFire(t) ==
  /\ t \in timers
  /\ now >= t.due
  /\ timers' = timers \ {t}
  /\ IF ~settled /\ Trim(utterance) # EmptyStr
       THEN /\ finalTranscript' = Trim(utterance)
            /\ safeResolve(Trim(utterance), "idle")
       ELSE /\ UNCHANGED finalTranscript
            /\ UNCHANGED promiseVars
  /\ lastStep' = OtherStep
  /\ UNCHANGED <<trailingSilenceMs, chan, opened, inp, utterance, lastTxt,
                 committed, idleTimer, nextTimerId, finalizeSent, now, nEvents,
                 stitched, lastTextAt, lastEventAt>>
  /\ occurred' = (occurred \/ Trim(utterance) # EmptyStr)
  /\ SessionFrame

\* Time passes
Tick(d) ==
  /\ now + d <= MaxTime
  /\ now' = now + d
  /\ UNCHANGED <<trailingSilenceMs, chan, opened, inp, finalTranscript,
                 utterance, lastTxt, committed, finalizeSent, nEvents,
                 stitched, lastTextAt, lastEventAt, lastStep>>
  /\ UNCHANGED timerVars
  /\ UNCHANGED promiseVars
  /\ UNCHANGED occurred
  /\ SessionFrame

\* State when the promise executor of model.ts:400 has returned
SessionInit ==
  /\ trailingSilenceMs \in CfgValues
  /\ chan = "connecting"
  /\ opened = FALSE
  /\ inp = "flowing"
  /\ settled = FALSE
  /\ finalTranscript = EmptyStr
  /\ utterance = EmptyStr
  /\ lastTxt = EmptyStr
  /\ committed = EmptyStr
  /\ idleTimer = 0
  /\ timers = {}
  /\ nextTimerId = 1
  /\ outcome = "pending"
  /\ result = EmptyStr
  /\ rejection = NoErr
  /\ resolveCalls = 0
  /\ rejectCalls = 0
  /\ closeCalls = 0
  /\ finalizeSent = 0
  /\ now = 0
  /\ nEvents = 0
  /\ settledBy = "none"
  /\ stitched = EmptyStr
  /\ lastTextAt = 0
  /\ lastEventAt = 0
  /\ lastStep = OtherStep
  /\ occurred = FALSE

StitchIdle ==
  /\ sBase = EmptyStr /\ sNext = EmptyStr
  /\ sOnce = EmptyStr /\ sTwice = EmptyStr /\ sPc = "idle"

DiffIdle ==
  /\ dOld = EmptyStr /\ dNew = EmptyStr
  /\ dHints = [added |-> <<>>, removed |-> <<>>, moved |-> <<>>]
  /\ dPaired = {}
  /\ dPc = "idle"

ApplyIdle ==
  /\ aDoc = EmptyStr /\ aStale = FALSE /\ aPc = "idle"
  /\ aOld = EmptyStr /\ aNew = EmptyStr
  /\ aHints = [added |-> <<>>, removed |-> <<>>, moved |-> <<>>]
  /\ aRange = <<0, 0>> /\ aCall = 0
  /\ aTypes = {} /\ aDecos = {} /\ aTimers = {} /\ aOutcome = "none"

LoopIdle ==
  /\ lPc = "stopped" /\ lPaused = TRUE /\ lRec = FALSE /\ lIter = 0
  /\ lTranscript = <<>> /\ lEditor = FALSE /\ lResult = "none"
  /\ lMessage = "none"
  /\ itFailed = FALSE /\ itCmd = FALSE /\ itLlm = FALSE
  /\ itReplace = FALSE /\ itAcquired = FALSE /\ itHandled = FALSE
  /\ itSensitive = FALSE /\ itChoice = "none" /\ itProgress = FALSE

RecIdle == rCur = 0 /\ rKilled = {} /\ rSpawned = 0 /\ rPc = "none"

\* Bound: invocations of the mantra.start handler that get past its guard
MaxLoops == 3

\* Bound: recorder processes spawned by the command handlers
MaxSpawns == 3

CmdIdle ==
  /\ cPaused = FALSE
  /\ cLoop = [i \in 1..MaxLoops |-> "none"]
  /\ cExited = {}
  /\ cKeys = FALSE
  /\ cChild = [i \in 1..MaxLoops |-> 0]

Init ==
  /\ SessionInit /\ StitchIdle /\ DiffIdle /\ ApplyIdle /\ LoopIdle /\ RecIdle
  /\ CmdIdle

Next ==
  \/ Open
  \/ \E raw \in TranscriptTexts, isFinal \in BOOLEAN, isSpeechFinal \in BOOLEAN :
       Transcript(raw, isFinal, isSpeechFinal)
  \/ Close
  \/ \E e \in ErrVals : ProviderError(e)
  \/ InputEnd
  \/ \E e \in InputErrVals : InputError(e)
  \/ \E t \in timers : IdleFire(t)
  \/ \E d \in TickSteps : Tick(d)

Spec == Init /\ [][Next]_vars

\* The event loop runs a timer that is due, and time passes; the provider and
\* the input stream owe the session nothing.
FairSpec ==
  /\ Spec
  /\ WF_vars(\E t \in timers : IdleFire(t))
  /\ WF_vars(\E d \in TickSteps : Tick(d))

------------------------------------------------------------------------------
(* appendWithOverlap applied twice to the same segment *)

MaxStitchLen == 4

SeqsUpTo(alphabet, n) == UNION {[1..k -> alphabet] : k \in 0..n}

HelloWor == <<"h", "e", "l", "l", "o", " ", "w", "o", "r">>
World == <<"w", "o", "r", "l", "d">>
HelloWorld == <<"h", "e", "l", "l", "o", " ", "w", "o", "r", "l", "d">>

StitchTexts == SeqsUpTo({"a", "b"}, MaxStitchLen) \cup {HelloWor, World}

StitchFrame ==
  UNCHANGED <<sessionVars, diffVars, applyVars, loopVars, recVars, cmdVars>>

\* first final event with text sNext on a session whose committed is sBase
StitchOnce ==
  /\ sPc = "input"
  /\ sOnce' = commitFinal(sBase, sNext)
  /\ sPc' = "once"
  /\ UNCHANGED <<sBase, sNext, sTwice>>
  /\ StitchFrame

\* the provider resends the same final segment
StitchTwice ==
  /\ sPc = "once"
  /\ sTwice' = commitFinal(sOnce, sNext)
  /\ sPc' = "twice"
  /\ UNCHANGED <<sBase, sNext, sOnce>>
  /\ StitchFrame

SessionIdle ==
  /\ trailingSilenceMs = 1000
  /\ chan = "closed" /\ opened = FALSE /\ inp = "ended"
  /\ settled = FALSE /\ finalTranscript = EmptyStr /\ utterance = EmptyStr
  /\ lastTxt = EmptyStr /\ committed = EmptyStr
  /\ idleTimer = 0 /\ timers = {} /\ nextTimerId = 1
  /\ outcome = "pending" /\ result = EmptyStr /\ rejection = NoErr
  /\ resolveCalls = 0 /\ rejectCalls = 0 /\ closeCalls = 0
  /\ finalizeSent = 0 /\ now = 0 /\ nEvents = 0
  /\ settledBy = "none" /\ stitched = EmptyStr
  /\ lastTextAt = 0 /\ lastEventAt = 0 /\ lastStep = OtherStep
  /\ occurred = FALSE

StitchInit ==
  /\ sBase \in StitchTexts
  /\ sNext \in StitchTexts
  /\ sOnce = EmptyStr /\ sTwice = EmptyStr /\ sPc = "input"
  /\ SessionIdle /\ DiffIdle /\ ApplyIdle /\ LoopIdle /\ RecIdle /\ CmdIdle

StitchNext == StitchOnce \/ StitchTwice

SpecStitch == StitchInit /\ [][StitchNext]_vars

------------------------------------------------------------------------------
(* computeChangeHints, extension.ts:258-343.  Line numbers are 0-based as in *)
(* the code; a sequence element k of the code is element k + 1 here.         *)

\* text.split(/\r?\n/): never an empty array, "" splits to [""]
RECURSIVE SplitLoop(_, _, _)
SplitLoop(rest, cur, acc) ==
  IF rest = EmptyStr THEN Append(acc, cur)
  ELSE IF Head(rest) = "\n"
    THEN SplitLoop(Tail(rest), EmptyStr, Append(acc, cur))
  ELSE IF Head(rest) = "\r" /\ Len(rest) >= 2 /\ rest[2] = "\n"
    THEN SplitLoop(Tail(Tail(rest)), EmptyStr, Append(acc, cur))
  ELSE SplitLoop(Tail(rest), Append(cur, Head(rest)), acc)

SplitLines(text) == SplitLoop(text, EmptyStr, <<>>)

\* lines.join('\n')
RECURSIVE JoinLines(_)
JoinLines(lines) ==
  IF lines = <<>> THEN EmptyStr
  ELSE IF Len(lines) = 1 THEN lines[1]
  ELSE lines[1] \o <<"\n">> \o JoinLines(Tail(lines))

\* block.replace(/\s+/g, '')
RECURSIVE StripWhitespace(_)
StripWhitespace(s) ==
  IF s = EmptyStr THEN s
  ELSE IF IsWhitespace(Head(s)) THEN StripWhitespace(Tail(s))
  ELSE <<Head(s)>> \o StripWhitespace(Tail(s))

\* text.indexOf(block): 0-based offset of the first occurrence, or -1
RECURSIVE IndexOfFrom(_, _, _)
IndexOfFrom(text, block, off) ==
  IF off + Len(block) > Len(text) THEN -1
  ELSE IF SubSeq(text, off + 1, off + Len(block)) = block THEN off
  ELSE IndexOfFrom(text, block, off + 1)

IndexOf(text, block) == IndexOfFrom(text, block, 0)

\* the LCS table of extension.ts:278-287, dp[i, j] for 0 <= i <= n, 0 <= j <= m
LcsTable(A, B) ==
  LET n == Len(A)
      m == Len(B)
      dp[i \in 0..n, j \in 0..m] ==
        IF i = n \/ j = m THEN 0
        ELSE IF A[i + 1] = B[j + 1] THEN dp[i + 1, j + 1] + 1
        ELSE Max(dp[i + 1, j], dp[i, j + 1])
  IN dp

WalkStart ==
  [i |-> 0, j |-> 0, addStart |-> -1, delCount |-> 0,
   added |-> <<>>, removed |-> <<>>, paired |-> {}]

\* a match branch that records the run of added lines and leaves it open
WalkStepKeepsRun(A, B, dp, st) ==
  IF A[st.i + 1] = B[st.j + 1]
    THEN [st EXCEPT
            !.added = IF st.addStart # -1
                        THEN Append(st.added, <<st.addStart, st.j - 1>>)
                        ELSE st.added,
            !.removed = IF st.delCount # 0
                          THEN Append(st.removed,
                                      [anchor |-> st.j, count |-> st.delCount])
                          ELSE st.removed,
            !.delCount = 0,
            !.paired = st.paired \cup {<<st.i, st.j>>},
            !.i = st.i + 1,
            !.j = st.j + 1]
  ELSE IF dp[st.i + 1, st.j] >= dp[st.i, st.j + 1]
    THEN [st EXCEPT !.delCount = st.delCount + 1, !.i = st.i + 1]
  ELSE [st EXCEPT !.addStart = IF st.addStart = -1 THEN st.j ELSE st.addStart,
                  !.j = st.j + 1]

\* one iteration of the while loop, extension.ts:293-304.  paired records the
\* (old line, new line) pairs the match branch consumes together.
WalkStepDeleteFirst(A, B, dp, st) ==
  IF dp[st.i + 1, st.j] >= dp[st.i, st.j + 1]
    THEN [st EXCEPT !.delCount = st.delCount + 1, !.i = st.i + 1]
  ELSE IF A[st.i + 1] = B[st.j + 1]
    THEN [st EXCEPT
            !.added = IF st.addStart # -1
                        THEN Append(st.added, <<st.addStart, st.j - 1>>)
                        ELSE st.added,
            !.addStart = -1,
            !.removed = IF st.delCount # 0
                          THEN Append(st.removed,
                                      [anchor |-> st.j, count |-> st.delCount])
                          ELSE st.removed,
            !.delCount = 0,
            !.paired = st.paired \cup {<<st.i, st.j>>},
            !.i = st.i + 1,
            !.j = st.j + 1]
  ELSE [st EXCEPT !.addStart = IF st.addStart = -1 THEN st.j ELSE st.addStart,
                  !.j = st.j + 1]

\* the deletion tag anchored at the old-text cursor instead of the new-text one
WalkStepAnchorOld(A, B, dp, st) ==
  IF A[st.i + 1] = B[st.j + 1]
    THEN [st EXCEPT
            !.added = IF st.addStart # -1
                        THEN Append(st.added, <<st.addStart, st.j - 1>>)
                        ELSE st.added,
            !.addStart = -1,
            !.removed = IF st.delCount # 0
                          THEN Append(st.removed,
                                      [anchor |-> st.i, count |-> st.delCount])
                          ELSE st.removed,
            !.delCount = 0,
            !.paired = st.paired \cup {<<st.i, st.j>>},
            !.i = st.i + 1,
            !.j = st.j + 1]
  ELSE IF dp[st.i + 1, st.j] >= dp[st.i, st.j + 1]
    THEN [st EXCEPT !.delCount = st.delCount + 1, !.i = st.i + 1]
  ELSE [st EXCEPT !.addStart = IF st.addStart = -1 THEN st.j ELSE st.addStart,
                  !.j = st.j + 1]

WalkStep(A, B, dp, st) ==
  IF A[st.i + 1] = B[st.j + 1]
    THEN [st EXCEPT
            !.added = IF st.addStart # -1
                        THEN Append(st.added, <<st.addStart, st.j - 1>>)
                        ELSE st.added,
            !.addStart = -1,
            !.removed = IF st.delCount # 0
                          THEN Append(st.removed,
                                      [anchor |-> st.j, count |-> st.delCount])
                          ELSE st.removed,
            !.delCount = 0,
            !.paired = st.paired \cup {<<st.i, st.j>>},
            !.i = st.i + 1,
            !.j = st.j + 1]
  ELSE IF dp[st.i + 1, st.j] >= dp[st.i, st.j + 1]
    THEN [st EXCEPT !.delCount = st.delCount + 1, !.i = st.i + 1]
  ELSE [st EXCEPT !.addStart = IF st.addStart = -1 THEN st.j ELSE st.addStart,
                  !.j = st.j + 1]

\* the while loop, extension.ts:293-304
RECURSIVE WalkLoop(_, _, _, _)
WalkLoop(A, B, dp, st) ==
  IF st.i < Len(A) /\ st.j < Len(B)
    THEN WalkLoop(A, B, dp, WalkStep(A, B, dp, st))
    ELSE st

\* the two flushes after the loop, extension.ts:305-306
TailFlush(m, st) ==
  [st EXCEPT
     !.added = IF st.addStart # -1
                 THEN Append(st.added, <<st.addStart, m - 1>>)
                 ELSE st.added,
     !.removed = IF st.delCount # 0
                   THEN Append(st.removed,
                               [anchor |-> Max(0, m - 1), count |-> st.delCount])
                   ELSE st.removed]

\* added, removed and the walk's pairs, extension.ts:263-307
Walk(oldText, newText) ==
  LET A == SplitLines(oldText)
      B == SplitLines(newText)
      n == Len(A)
      m == Len(B)
  IN IF n = 0 /\ m > 0
       THEN [WalkStart EXCEPT !.added = <<<<0, m - 1>>>>]
     ELSE IF m = 0 /\ n > 0 THEN WalkStart
     ELSE IF m > 0
       THEN TailFlush(m, WalkLoop(A, B, LcsTable(A, B), WalkStart))
     ELSE WalkStart

\* oldOffsets of extension.ts:314-315: 0-based offsets at which a line starts
RECURSIVE OldOffsetsFrom(_, _)
OldOffsetsFrom(text, k) ==
  IF k >= Len(text) THEN <<>>
  ELSE IF text[k + 1] = "\n" THEN <<k + 1>> \o OldOffsetsFrom(text, k + 1)
  ELSE OldOffsetsFrom(text, k + 1)

OldOffsets(text) == <<0>> \o OldOffsetsFrom(text, 0)

\* the binary search of extension.ts:316-324
RECURSIVE OffsetSearch(_, _, _, _, _)
OffsetSearch(offsets, off, lo, hi, ans) ==
  IF lo > hi THEN ans
  ELSE LET mid == (lo + hi) \div 2
       IN IF offsets[mid + 1] <= off
            THEN OffsetSearch(offsets, off, mid + 1, hi, mid)
            ELSE OffsetSearch(offsets, off, lo, mid - 1, ans)

\* the search returning how many lines start at or before off (1-based)
offsetToLineOneBased(offsets, off) ==
  OffsetSearch(offsets, off, 0, Len(offsets) - 1, 0) + 1

offsetToLine(offsets, off) == OffsetSearch(offsets, off, 0, Len(offsets) - 1, 0)

\* a loop body that flags every added span whose text is in the old text
MovedOfNoDistance(oldText, B, span) ==
  LET s == span[1]
      e == span[2]
      block == JoinLines(SubSeq(B, s + 1, e + 1))
      foundAt == IndexOf(oldText, block)
      fromStart == offsetToLine(OldOffsets(oldText), foundAt)
  IN IF StripWhitespace(block) = EmptyStr THEN <<>>
     ELSE IF foundAt >= 0
       THEN <<[start |-> s, end |-> e, fromStart |-> fromStart,
               fromEnd |-> fromStart + (e - s)]>>
     ELSE <<>>

\* the body of the for loop of extension.ts:326-339 for one added span
MovedOf(oldText, B, span) ==
  LET s == span[1]
      e == span[2]
      block == JoinLines(SubSeq(B, s + 1, e + 1))
      foundAt == IndexOf(oldText, block)
      fromStart == offsetToLine(OldOffsets(oldText), foundAt)
  IN IF StripWhitespace(block) = EmptyStr THEN <<>>
     ELSE IF foundAt >= 0 /\ Abs(fromStart - s) > 1
       THEN <<[start |-> s, end |-> e, fromStart |-> fromStart,
               fromEnd |-> fromStart + (e - s)]>>
     ELSE <<>>

RECURSIVE MovedLoop(_, _, _)
MovedLoop(oldText, B, added) ==
  IF added = <<>> THEN <<>>
  ELSE MovedOf(oldText, B, Head(added)) \o MovedLoop(oldText, B, Tail(added))

computeChangeHints(oldText, newText) ==
  LET w == Walk(oldText, newText)
      n == Len(SplitLines(oldText))
      m == Len(SplitLines(newText))
  IN [added |-> w.added,
      removed |-> w.removed,
      moved |-> IF w.added # <<>> /\ n > 0 /\ m > 0
                  THEN MovedLoop(oldText, SplitLines(newText), w.added)
                  ELSE <<>>]

------------------------------------------------------------------------------
(* computeChangeHints applied to a pair of texts *)

MaxTextLen == 4

TextABC == <<"a", "\n", "b", "\n", "c">>
TextAC == <<"a", "\n", "c">>

TextABCD == <<"a", "\n", "b", "\n", "c", "\n", "d">>
TextAD == <<"a", "\n", "d">>
TextMoveOld ==
  <<"x", "\n", "y", "\n", "f", "o", "o", "\n", "b", "a", "r", "\n", "z">>
TextMoveNew ==
  <<"x", "\n", "f", "o", "o", "\n", "b", "a", "r", "\n", "y", "\n", "z">>

TextAB == <<"a", "\n", "b">>
TextBAAB == <<"b", "\n", "a", "\n", "a", "\n", "b">>

DiffTexts ==
  SeqsUpTo({"a", "b", "\n"}, MaxTextLen)
    \cup {TextABC, TextAC, TextABCD, TextAD, TextMoveOld, TextMoveNew,
          TextAB, TextBAAB}

ComputeHints ==
  /\ dPc = "input"
  /\ dHints' = computeChangeHints(dOld, dNew)
  /\ dPaired' = Walk(dOld, dNew).paired
  /\ dPc' = "done"
  /\ UNCHANGED <<dOld, dNew>>
  /\ UNCHANGED <<sessionVars, stitchVars, applyVars, loopVars, recVars,
                 cmdVars>>

DiffInit ==
  /\ dOld \in DiffTexts
  /\ dNew \in DiffTexts
  /\ dHints = [added |-> <<>>, removed |-> <<>>, moved |-> <<>>]
  /\ dPaired = {}
  /\ dPc = "input"
  /\ SessionIdle /\ StitchIdle /\ ApplyIdle /\ LoopIdle /\ RecIdle /\ CmdIdle

DiffNext == ComputeHints

SpecDiff == DiffInit /\ [][DiffNext]_vars

------------------------------------------------------------------------------
(* replaceDocumentWithHighlight, extension.ts:349-468 *)

\* extension.ts:455
DISPOSE_MS == 3500

\* addedType, removedType, movedType, extension.ts:367-385
Kinds == {"added", "removed", "moved"}

\* editor.document.positionAt(offset) as an offset: clamped to the document
positionAt(doc, off) == Min(Max(0, off), Len(doc))

\* a range that stops one character short of the end of the old text
entireRangeShort(doc, oldText) ==
  <<positionAt(doc, 0), positionAt(doc, Len(oldText) - 1)>>

\* entireRange, extension.ts:357-360
entireRange(doc, oldText) ==
  <<positionAt(doc, 0), positionAt(doc, Len(oldText))>>

\* eb.replace(range, text), extension.ts:361
replaceRange(doc, range, text) ==
  SliceTo(doc, range[1]) \o text \o SliceFrom(doc, range[2])

\* editor.document.lineCount: a document has at least one line
lineCount(doc) == Len(SplitLines(doc))

\* extension.ts:388-395, ranges as [first line, last line]
RECURSIVE addedRanges(_, _)
addedRanges(added, doc) ==
  IF added = <<>> THEN <<>>
  ELSE LET startLine == Head(added)[1]
           endLine == Head(added)[2]
           rest == addedRanges(Tail(added), doc)
       IN IF startLine > endLine THEN rest
          ELSE <<[start |-> Max(0, startLine),
                  end |-> Min(lineCount(doc) - 1, Max(0, endLine))]>> \o rest

\* extension.ts:398-417, the line of the tag and the count it shows
RECURSIVE removedRanges(_, _)
removedRanges(removed, doc) ==
  IF removed = <<>> THEN <<>>
  ELSE LET anchor == Head(removed).anchor
           count == Head(removed).count
           rest == removedRanges(Tail(removed), doc)
       IN IF count <= 0 THEN rest
          ELSE <<[line |-> Min(Max(0, anchor), Max(0, lineCount(doc) - 1)),
                  count |-> count]>> \o rest

\* extension.ts:420-447, the lines of the border and the label "moved from"
RECURSIVE movedRanges(_, _)
movedRanges(moved, doc) ==
  IF moved = <<>> THEN <<>>
  ELSE LET mv == Head(moved)
           rest == movedRanges(Tail(moved), doc)
       IN IF mv.start > mv.end THEN rest
          ELSE <<[start |-> Max(0, Min(mv.start, lineCount(doc) - 1)),
                  end |-> Max(0, Min(mv.end, lineCount(doc) - 1)),
                  fromLine |-> mv.fromStart + 1,
                  toLine |-> mv.fromEnd + 1]>> \o rest

\* the three createTextEditorDecorationType calls, extension.ts:367-385
createdTypes(call) == {[call |-> call, kind |-> k] : k \in Kinds}

\* a callback that forgets movedType.dispose()
disposedTypesNoMoved(call) ==
  {[call |-> call, kind |-> k] : k \in {"added", "removed"}}

\* the three dispose() calls of the timer callback, extension.ts:463-465
disposedTypes(call) == {[call |-> call, kind |-> k] : k \in Kinds}

\* the three setDecorations calls, extension.ts:450-452
appliedDecorations(call, hints, doc) ==
  { [call |-> call, kind |-> "added", ranges |-> addedRanges(hints.added, doc)],
    [call |-> call, kind |-> "removed",
     ranges |-> removedRanges(hints.removed, doc)],
    [call |-> call, kind |-> "moved", ranges |-> movedRanges(hints.moved, doc)] }

\* extension.ts:353-361: replaceDocumentWithHighlight up to its await
replaceStart(newText) ==
  /\ aCall' = aCall + 1
  /\ aOld' = aDoc
  /\ aNew' = newText
  /\ aHints' = computeChangeHints(aDoc, newText)
  /\ aRange' = entireRange(aDoc, aDoc)
  /\ aStale' = FALSE
  /\ aPc' = "editing"
  /\ UNCHANGED <<aDoc, aTypes, aDecos, aTimers, aOutcome>>

------------------------------------------------------------------------------
(* The loop of mantra.start, extension.ts:604-729, with startMicStream,      *)
(* recorder.ts:107-166.  A transcript is a sequence of lower-case words.     *)

MaxIterations == 2

\* how far the clock may advance between two steps of the loop
ApplyTickSteps == {1750}

\* what the listening session of an iteration resolves with
Utterances ==
  { <<>>, <<"please", "pause">>, <<"undo">>, <<"paste">>,
    <<"add", "a", "comment">> }

\* the text the language model returns for a modification, after
\* stripMarkdownCodeFence
ApplyTexts == {EmptyStr, TextAC, TextMoveNew}

\* the text of the document when the command starts
InitialDocs == {TextABC, TextMoveOld}

\* /(^|\b)(pause|stop listening)(\b|$)/ on words, extension.ts:643
HasPausePhrase(words) ==
  \E k \in 1..Len(words) :
    \/ words[k] = "pause"
    \/ k < Len(words) /\ words[k] = "stop" /\ words[k + 1] = "listening"

\* aliases of commands.ts:24-128 used here
MappedAliases == { <<"undo">>, <<"save">> }

\* the candidates of tryExecuteMappedCommand, commands.ts:158
Candidates(words) ==
  { words,
    IF words # <<>> /\ Head(words) = "toggle" THEN Tail(words) ELSE words,
    IF words # <<>> /\ words[Len(words)] \in {"please", "now"}
      THEN SubSeq(words, 1, Len(words) - 1) ELSE words }

\* tryExecuteMappedCommand finds a command, commands.ts:160-162
IsMapped(words) == words # <<>> /\ Candidates(words) \cap MappedAliases # {}

\* handleCommand of textOps handles the utterance itself: "paste" with an
\* active editor
IsTextCommand(words, editor) == editor /\ words = <<"paste">>

\* a callback that swallows the rejection of transcribeStream and goes on
streamCallbackSwallow(rejected, words) ==
  IF rejected THEN "route"
  ELSE IF words = <<>> THEN "empty"
  ELSE IF HasPausePhrase(words) THEN "pause"
  ELSE "route"

\* the callback of extension.ts:625-648 up to the first command lookup:
\* "caught" is the catch of recorder.ts:158-160
streamCallback(rejected, words) ==
  IF rejected THEN "caught"
  ELSE IF words = <<>> THEN "empty"
  ELSE IF HasPausePhrase(words) THEN "pause"
  ELSE "route"

\* a dispatch whose last branch also applies the payload
dispatchAnswerApplies(res, editor) ==
  IF res = "throws" THEN "error"
  ELSE IF res = "command" THEN "command"
  ELSE IF editor THEN "apply" ELSE "warn"

\* the dispatch on result.type, extension.ts:671-723
dispatch(res, editor) ==
  IF res = "throws" THEN "error"
  ELSE IF res = "command" THEN "command"
  ELSE IF res = "modification" THEN (IF editor THEN "apply" ELSE "warn")
  ELSE "answer"

LoopFrame == UNCHANGED <<sessionVars, stitchVars, diffVars, recVars, cmdVars>>

\* extension.ts:614-627 and recorder.ts:112-157: a new iteration spawns the
\* recorder and calls transcribeStream
LoopListen ==
  /\ lPc = "loop"
  /\ ~lPaused
  /\ lIter < MaxIterations
  /\ lPc' = "listening"
  /\ lIter' = lIter + 1
  /\ lRec' = TRUE
  /\ lTranscript' = <<>> /\ lEditor' = FALSE /\ lResult' = "none"
  /\ itFailed' = FALSE /\ itCmd' = FALSE /\ itLlm' = FALSE
  /\ itReplace' = FALSE /\ itAcquired' = FALSE /\ itHandled' = FALSE
  /\ itSensitive' = FALSE /\ itChoice' = "none"
  /\ itProgress' = TRUE
  /\ UNCHANGED <<lPaused, lMessage>>
  /\ UNCHANGED applyVars
  /\ LoopFrame

\* the while condition of extension.ts:614 is false
LoopExit ==
  /\ lPc = "loop"
  /\ lPaused
  /\ lPc' = "stopped"
  /\ UNCHANGED <<lPaused, lRec, lIter, lTranscript, lEditor, lResult, lMessage,
                 itFailed, itCmd, itLlm, itReplace, itAcquired, itHandled,
                 itSensitive, itChoice, itProgress>>
  /\ UNCHANGED applyVars
  /\ LoopFrame

\* transcribeStream settles, extension.ts:627-648; the catch and finally of
\* recorder.ts:158-166 when the callback is over
SessionSettles(rejected, words) ==
  /\ lPc = "listening"
  /\ rejected => words = <<>>
  /\ LET step == streamCallback(rejected, words)
     IN /\ lPc' = IF step = "route" THEN "routing" ELSE "loop"
        /\ lRec' = (step = "route")
        /\ lPaused' = (lPaused \/ step = "pause")
        /\ lMessage' = IF step = "caught" THEN "Stream handler error"
                       ELSE IF step = "pause" THEN "Pausing Mantra"
                       ELSE IF step = "route" THEN "Transcribed"
                       ELSE lMessage
  /\ itFailed' = rejected
  /\ itProgress' = rejected
  /\ lTranscript' = words
  /\ UNCHANGED <<lIter, lEditor, lResult, itCmd, itLlm, itReplace, itAcquired,
                 itHandled, itSensitive, itChoice>>
  /\ UNCHANGED applyVars
  /\ LoopFrame

\* the answers to the modal warning of extension.ts:243-248; "dismissed" is
\* the undefined of a dialog closed without a choice
Choices == {"Proceed once", "Cancel", "dismissed"}

\* a guard that lets the request through when the dialog is dismissed
warnSensitiveDismissedProceeds(byPath, byLang, byContent, choice) ==
  IF ~byPath /\ ~byLang /\ ~byContent THEN TRUE ELSE choice # "Cancel"

\* extension.ts:213-254: true at once for a file that is flagged neither by
\* path, nor by language id, nor by content; otherwise the answer decides
warnSensitiveFileAndMaybeProceed(byPath, byLang, byContent, choice) ==
  IF ~byPath /\ ~byLang /\ ~byContent THEN TRUE ELSE choice = "Proceed once"

\* extension.ts:654-677: mapped command, text command, sensitive-file guard,
\* then the call of model.decide.  cmdOk: executeCommand does not throw;
\* editor: an editor is active; byPath, byLang, byContent: what the guard
\* finds in the active editor; choice: the answer to its dialog.
Route(cmdOk, editor, byPath, byLang, byContent, choice) ==
  /\ lPc = "routing"
  /\ editor \/ (~byPath /\ ~byLang /\ ~byContent)
  /\ LET handled == \/ IsMapped(lTranscript) /\ cmdOk
                    \/ IsTextCommand(lTranscript, editor)
         flagged == byPath \/ byLang \/ byContent
         proceed == warnSensitiveFileAndMaybeProceed(byPath, byLang,
                                                     byContent, choice)
     IN /\ itHandled' = handled
        /\ itCmd' = (IsMapped(lTranscript) \/ IsTextCommand(lTranscript, editor))
        /\ lEditor' = (~handled /\ editor)
        /\ itSensitive' = (~handled /\ flagged)
        /\ itChoice' = IF ~handled /\ flagged THEN choice ELSE "none"
        /\ itLlm' = (~handled /\ proceed)
        /\ lPc' = IF ~handled /\ proceed THEN "deciding" ELSE "loop"
        /\ lRec' = (~handled /\ proceed)
        /\ lMessage' = IF handled THEN "Executed"
                       ELSE IF flagged /\ choice = "dismissed"
                              THEN "Mantra blocked LLM"
                       ELSE lMessage
  /\ UNCHANGED <<lPaused, lIter, lTranscript, lResult, itFailed, itReplace,
                 itAcquired, itProgress>>
  /\ UNCHANGED applyVars
  /\ LoopFrame

\* model.decide settles, extension.ts:678-723; a modification with an editor
\* runs replaceDocumentWithHighlight up to its await
Decided(res, newText) ==
  /\ lPc = "deciding"
  /\ lResult' = res
  /\ LET d == dispatch(res, lEditor)
     IN IF d = "apply"
          THEN /\ replaceStart(newText)
               /\ lPc' = "applying"
               /\ itReplace' = TRUE
               /\ UNCHANGED <<lRec, lMessage, itCmd>>
          ELSE /\ lPc' = "loop"
               /\ lRec' = FALSE
               /\ itCmd' = (itCmd \/ d = "command")
               /\ lMessage' = IF d = "error" THEN "Groq request failed"
                              ELSE IF d = "warn" THEN "No active editor"
                              ELSE IF d = "command" THEN "Executed"
                              ELSE "answer"
               /\ UNCHANGED itReplace
               /\ UNCHANGED applyVars
  /\ UNCHANGED <<lPaused, lIter, lTranscript, lEditor, itFailed, itLlm,
                 itAcquired, itHandled, itSensitive, itChoice, itProgress>>
  /\ LoopFrame

\* The user types while the edit is pending: the document moves on from the
\* version the edit was built for
UserType ==
  /\ aPc = "editing"
  /\ ~aStale
  /\ aDoc' = aDoc \o <<"b">>
  /\ aStale' = TRUE
  /\ UNCHANGED <<aPc, aOld, aNew, aHints, aRange, aCall, aTypes, aDecos,
                 aTimers, aOutcome>>
  /\ UNCHANGED loopVars
  /\ LoopFrame

\* editor.edit settles and replaceDocumentWithHighlight runs to its end,
\* extension.ts:361-468, then extension.ts:706 and recorder.ts:158-166.
\* res: "applied" (true), "notApplied" (false) or "threw" (the promise
\* rejects); an edit built for an older version of the document is refused.
ApplyResume(res) ==
  /\ lPc = "applying"
  /\ aPc = "editing"
  /\ res = "applied" => ~aStale
  /\ LET doc1 == IF res = "applied" THEN replaceRange(aDoc, aRange, aNew)
                                    ELSE aDoc
         decorate == res # "threw" /\ lineCount(doc1) # 0
     IN /\ aDoc' = doc1
        /\ aTypes' = IF decorate THEN aTypes \cup createdTypes(aCall) ELSE aTypes
        /\ aDecos' = IF decorate
                       THEN aDecos \cup appliedDecorations(aCall, aHints, doc1)
                       ELSE aDecos
        /\ aTimers' = IF decorate
                        THEN aTimers \cup {[call |-> aCall, left |-> DISPOSE_MS]}
                        ELSE aTimers
        /\ itAcquired' = decorate
  /\ aOutcome' = res
  /\ aPc' = "idle"
  /\ aStale' = FALSE
  /\ lMessage' = IF res = "threw" THEN "Stream handler error"
                 ELSE "Applied modification from LLM"
  /\ lPc' = "loop"
  /\ lRec' = FALSE
  /\ UNCHANGED <<aOld, aNew, aHints, aRange, aCall>>
  /\ UNCHANGED <<lPaused, lIter, lTranscript, lEditor, lResult, itFailed,
                 itCmd, itLlm, itReplace, itHandled, itSensitive, itChoice,
                 itProgress>>
  /\ LoopFrame

\* the callback of the dispose timer, extension.ts:456-467
DisposeFire(t) ==
  /\ t \in aTimers
  /\ t.left = 0
  /\ aTimers' = aTimers \ {t}
  /\ aDecos' = {d \in aDecos : d.call # t.call}
  /\ aTypes' = aTypes \ disposedTypes(t.call)
  /\ UNCHANGED <<aDoc, aStale, aPc, aOld, aNew, aHints, aRange, aCall,
                 aOutcome>>
  /\ UNCHANGED loopVars
  /\ LoopFrame

\* Time passes for the pending dispose timers
ApplyTick(d) ==
  /\ \E t \in aTimers : t.left > 0
  /\ aTimers' = {[t EXCEPT !.left = Max(0, t.left - d)] : t \in aTimers}
  /\ UNCHANGED <<aDoc, aStale, aPc, aOld, aNew, aHints, aRange, aCall, aTypes,
                 aDecos, aOutcome>>
  /\ UNCHANGED loopVars
  /\ LoopFrame

\* State when mantra.start reaches its loop, extension.ts:605-614
LoopInit ==
  /\ aDoc \in InitialDocs
  /\ aStale = FALSE /\ aPc = "idle"
  /\ aOld = EmptyStr /\ aNew = EmptyStr
  /\ aHints = [added |-> <<>>, removed |-> <<>>, moved |-> <<>>]
  /\ aRange = <<0, 0>> /\ aCall = 0
  /\ aTypes = {} /\ aDecos = {} /\ aTimers = {} /\ aOutcome = "none"
  /\ lPc = "loop" /\ lPaused = FALSE /\ lRec = FALSE /\ lIter = 0
  /\ lTranscript = <<>> /\ lEditor = FALSE /\ lResult = "none"
  /\ lMessage = "none"
  /\ itFailed = FALSE /\ itCmd = FALSE /\ itLlm = FALSE
  /\ itReplace = FALSE /\ itAcquired = FALSE /\ itHandled = FALSE
  /\ itSensitive = FALSE /\ itChoice = "none" /\ itProgress = FALSE
  /\ SessionIdle /\ StitchIdle /\ DiffIdle /\ RecIdle /\ CmdIdle

LoopNext ==
  \/ LoopListen
  \/ LoopExit
  \/ \E rejected \in BOOLEAN, words \in Utterances :
       SessionSettles(rejected, words)
  \/ \E cmdOk \in BOOLEAN, editor \in BOOLEAN, byPath \in BOOLEAN,
        byLang \in BOOLEAN, byContent \in BOOLEAN, choice \in Choices :
       Route(cmdOk, editor, byPath, byLang, byContent, choice)
  \/ \E res \in {"throws", "command", "modification", "question"},
        newText \in ApplyTexts : Decided(res, newText)
  \/ UserType
  \/ \E res \in {"applied", "notApplied", "threw"} : ApplyResume(res)
  \/ \E t \in aTimers : DisposeFire(t)
  \/ \E d \in ApplyTickSteps : ApplyTick(d)

SpecLoop == LoopInit /\ [][LoopNext]_vars

\* The event loop runs a dispose timer that is due, and time passes
FairLoop ==
  /\ SpecLoop
  /\ WF_vars(\E t \in aTimers : DisposeFire(t))
  /\ WF_vars(\E d \in ApplyTickSteps : ApplyTick(d))

\* The mantra.pause command, extension.ts:731-736, invoked while the loop
\* runs: the flag is set and pauseRecording drops the recorder
LoopPause ==
  /\ lPc # "stopped"
  /\ lPaused' = TRUE
  /\ lRec' = FALSE
  /\ lMessage' = "Mantra paused"
  /\ UNCHANGED <<lPc, lIter, lTranscript, lEditor, lResult, itFailed, itCmd,
                 itLlm, itReplace, itAcquired, itHandled, itSensitive,
                 itChoice, itProgress>>
  /\ UNCHANGED applyVars
  /\ LoopFrame

PauseNext ==
  \/ LoopNext
  \/ LoopPause

\* the loop of mantra.start with the mantra.pause command
SpecPause == LoopInit /\ [][PauseNext]_vars

------------------------------------------------------------------------------
(* startMicStream called while a listening session is in flight,             *)
(* recorder.ts:107-132, with pauseRecording and terminate, recorder.ts:13-31 *)

RestartTexts == { <<"a">> }
RestartErrVals == { [isError |-> TRUE, msg |-> "socket hang up"] }

RestartFrame ==
  UNCHANGED <<sessionVars, stitchVars, diffVars, applyVars, loopVars, cmdVars>>

\* pauseRecording, recorder.ts:13-17: the recorder gets SIGTERM and the
\* reference to it is dropped
pauseRecording ==
  IF rCur = 0 THEN UNCHANGED <<rCur, rKilled>>
  ELSE /\ rKilled' = rKilled \cup {rCur}
       /\ rCur' = 0

\* the mantra.pause command, extension.ts:731-736
PauseCommand ==
  /\ rPc = "none"
  /\ rCur # 0
  /\ pauseRecording
  /\ UNCHANGED <<rSpawned, rPc>>
  /\ RestartFrame

\* startMicStream up to the wait of recorder.ts:114 when a recorder is
\* running, or up to the end of the spawn of recorder.ts:131-132 otherwise
StartMicStream ==
  /\ rPc = "none"
  /\ IF rCur # 0
       THEN /\ pauseRecording
            /\ rPc' = "waiting"
            /\ UNCHANGED rSpawned
       ELSE /\ rCur' = rSpawned + 1
            /\ rSpawned' = rSpawned + 1
            /\ rPc' = "spawned"
            /\ UNCHANGED rKilled
  /\ RestartFrame

\* the wait of recorder.ts:114 is over: spawn, recorder.ts:131-132
SpawnAfterWait ==
  /\ rPc = "waiting"
  /\ rCur' = rSpawned + 1
  /\ rSpawned' = rSpawned + 1
  /\ rPc' = "spawned"
  /\ UNCHANGED rKilled
  /\ RestartFrame

\* A session was started on the output of recorder 1 and is in flight
RestartInit ==
  /\ SessionInit
  /\ rCur = 1 /\ rKilled = {} /\ rSpawned = 1 /\ rPc = "none"
  /\ StitchIdle /\ DiffIdle /\ ApplyIdle /\ LoopIdle /\ CmdIdle

RestartNext ==
  \/ Open
  \/ \E raw \in RestartTexts, isFinal \in BOOLEAN, isSpeechFinal \in BOOLEAN :
       Transcript(raw, isFinal, isSpeechFinal)
  \/ Close
  \/ \E e \in RestartErrVals : ProviderError(e)
  \/ InputEnd
  \/ \E e \in InputErrVals : InputError(e)
  \/ \E t \in timers : IdleFire(t)
  \/ \E d \in TickSteps : Tick(d)
  \/ PauseCommand
  \/ StartMicStream
  \/ SpawnAfterWait

SpecRestart == RestartInit /\ [][RestartNext]_vars

------------------------------------------------------------------------------
(* The commands mantra.start, mantra.pause and mantra.resume, and the loops
   they run.  Every await of the handler is a place where another command
   handler, a timer or a process event can run. *)

CmdFrame ==
  UNCHANGED <<sessionVars, stitchVars, diffVars, applyVars, loopVars, rPc>>

\* recorderActive, recorder.ts:8-10.  terminate() is always followed by
\* currentRecProcess = null, so a referenced process is never a killed one.
recorderActive == rCur # 0 /\ rCur \notin rKilled

\* invocations of the handler that have not happened yet
FreeLoops == {i \in 1..MaxLoops : cLoop[i] = "none"}

\* The test of `while (!__mantraPaused)`, extension.ts:614, and, when it
\* passes, startMicStream up to its first await: the wait of recorder.ts:114
\* after stopping a running recorder, or the await of onStream at
\* recorder.ts:157 after the spawn of 131-132.  paused: the value of
\* __mantraPaused the test reads.
whileTop(id, paused) ==
  IF paused
    THEN /\ cLoop' = [cLoop EXCEPT ![id] = "done"]
         /\ UNCHANGED <<rCur, rKilled, rSpawned, cChild>>
  ELSE IF rCur # 0
    THEN /\ pauseRecording
         /\ cLoop' = [cLoop EXCEPT ![id] = "spawnWait"]
         /\ UNCHANGED <<rSpawned, cChild>>
  ELSE /\ rSpawned < MaxSpawns
       /\ rSpawned' = rSpawned + 1
       /\ rCur' = rSpawned + 1
       /\ cChild' = [cChild EXCEPT ![id] = rSpawned + 1]
       /\ cLoop' = [cLoop EXCEPT ![id] = "callback"]
       /\ UNCHANGED rKilled

\* The mantra.start handler up to its first real await, extension.ts:604-634.
\* With both API keys in memory ensureApiKeys (extension.ts:493-528) awaits
\* nothing and the loop is entered in the same turn.
startHandler ==
  /\ cPaused' = FALSE
  /\ IF recorderActive
       THEN UNCHANGED <<cLoop, rCur, rKilled, rSpawned, cChild>>
       ELSE /\ FreeLoops # {}
            /\ LET id == CHOOSE i \in FreeLoops : \A j \in FreeLoops : i <= j
               IN IF cKeys
                    THEN whileTop(id, FALSE)
                    ELSE /\ cLoop' = [cLoop EXCEPT ![id] = "keys"]
                         /\ UNCHANGED <<rCur, rKilled, rSpawned, cChild>>
  /\ UNCHANGED <<cExited, cKeys>>

\* the mantra.start command, extension.ts:604-729
CmdStart ==
  /\ startHandler
  /\ CmdFrame

\* the mantra.resume command, extension.ts:738-742: clears the flag and runs
\* mantra.start
CmdResume ==
  /\ cPaused
  /\ startHandler
  /\ CmdFrame

\* the mantra.pause command, extension.ts:731-736
CmdPause ==
  /\ cPaused' = TRUE
  /\ pauseRecording
  /\ UNCHANGED <<cLoop, cExited, cKeys, cChild, rSpawned>>
  /\ CmdFrame

\* ensureApiKeys settles, extension.ts:611; ok: both keys were obtained
KeysDone(id, ok) ==
  /\ cLoop[id] = "keys"
  /\ IF ok THEN whileTop(id, cPaused)
           ELSE /\ cLoop' = [cLoop EXCEPT ![id] = "done"]
                /\ UNCHANGED <<rCur, rKilled, rSpawned, cChild>>
  /\ cKeys' = (cKeys \/ ok)
  /\ UNCHANGED <<cPaused, cExited>>
  /\ CmdFrame

\* the wait of recorder.ts:114 is over: spawn and keep the reference,
\* recorder.ts:131-132, then await onStream
MicSpawn(id) ==
  /\ cLoop[id] = "spawnWait"
  /\ rSpawned < MaxSpawns
  /\ rSpawned' = rSpawned + 1
  /\ rCur' = rSpawned + 1
  /\ cChild' = [cChild EXCEPT ![id] = rSpawned + 1]
  /\ cLoop' = [cLoop EXCEPT ![id] = "callback"]
  /\ UNCHANGED <<rKilled, cPaused, cExited, cKeys>>
  /\ CmdFrame

\* The callback handed to startMicStream settles, extension.ts:625-724, and
\* the finally block of recorder.ts:161-166 terminates whatever recorder
\* currentRecProcess refers to; then the loop reaches the wait of
\* extension.ts:727.  pausePhrase: the transcript held "pause", so the
\* callback set __mantraPaused and called pauseRecording, extension.ts:643-648.
CallbackSettles(id, pausePhrase) ==
  /\ cLoop[id] = "callback"
  /\ cPaused' = (cPaused \/ pausePhrase)
  /\ pauseRecording
  /\ cLoop' = [cLoop EXCEPT ![id] = "tail"]
  /\ UNCHANGED <<rSpawned, cExited, cKeys, cChild>>
  /\ CmdFrame

\* the 25 ms wait of extension.ts:727 is over: back to the loop test
TailDone(id) ==
  /\ cLoop[id] = "tail"
  /\ whileTop(id, cPaused)
  /\ UNCHANGED <<cPaused, cExited, cKeys>>
  /\ CmdFrame

\* A recorder process exits, by itself or after a signal; its 'close'
\* listener, recorder.ts:151-153, drops the reference if it is still to it
RecorderExits(p) ==
  /\ p \in 1..rSpawned
  /\ p \notin cExited
  /\ cExited' = cExited \cup {p}
  /\ rCur' = IF rCur = p THEN 0 ELSE rCur
  /\ UNCHANGED <<rKilled, rSpawned, cPaused, cLoop, cKeys, cChild>>
  /\ CmdFrame

CmdInit ==
  /\ SessionIdle /\ StitchIdle /\ DiffIdle /\ ApplyIdle /\ LoopIdle
  /\ RecIdle /\ CmdIdle

CmdNext ==
  \/ CmdResume
  \/ CmdStart
  \/ CmdPause
  \/ \E id \in 1..MaxLoops, ok \in BOOLEAN : KeysDone(id, ok)
  \/ \E id \in 1..MaxLoops : MicSpawn(id)
  \/ \E id \in 1..MaxLoops, pausePhrase \in BOOLEAN :
       CallbackSettles(id, pausePhrase)
  \/ \E id \in 1..MaxLoops : TailDone(id)
  \/ \E p \in 1..MaxSpawns : RecorderExits(p)

SpecCommands == CmdInit /\ [][CmdNext]_vars

------------------------------------------------------------------------------
(* Claims about the listening session *)

\* The idle delay of the specification: max(1200, T + 200) with T the
\* configured trailing silence clamped to at least 100
SpecIdleMs ==
  LET T == IF trailingSilenceMs >= 100 THEN trailingSilenceMs ELSE 100
  IN IF T + 200 >= 1200 THEN T + 200 ELSE 1200

\* The text the specification resolves a speech-final event with: the stitched
\* finalized segments, followed by a space and the text of the event when the
\* event itself is interim
SpecPreview ==
  IF lastStep.isFinal THEN stitched
  ELSE IF stitched = EmptyStr THEN lastStep.txt
  ELSE stitched \o <<" ">> \o lastStep.txt

\* C1: a session settles at most once.  resolve() and reject() are called at
\* most once in total, exactly once when settled is set, and once a path has
\* settled the session no later path changes the outcome, the resolved text
\* or the rejection.
C1SettlesOnce ==
  /\ [](resolveCalls + rejectCalls <= 1)
  /\ [](settled <=> (resolveCalls + rejectCalls = 1))
  /\ [](settled <=> (outcome # "pending"))
  /\ [][settled => /\ settled'
                   /\ settledBy' = settledBy
                   /\ outcome' = outcome
                   /\ result' = result
                   /\ rejection' = rejection]_vars

\* C1 witness: the idle timer resolved the session and a speech-final event
\* with text arrived afterwards, so a second path fired and lost
C1Witness ==
  /\ settledBy = "idle"
  /\ outcome = "resolved"
  /\ lastStep.op = "Transcript"
  /\ lastStep.wasSettled
  /\ lastStep.isSpeechFinal
  /\ lastStep.txt # EmptyStr

\* C2 as stated: after the handling of any speech-final event that found the
\* session unsettled, the session is resolved by that event with the trimmed
\* stitching of the finalized segments, whether or not the event is final.
C2Original ==
  (lastStep.op = "Transcript" /\ lastStep.isSpeechFinal /\ ~lastStep.wasSettled)
    => /\ outcome = "resolved"
       /\ settledBy = "speechFinal"
       /\ result = Trim(stitched)

\* C2 amended: after the handling of a speech-final event with non-empty text
\* that found the session unsettled, the session is resolved by that event
\* with the trimmed preview: the stitched finalized segments when the event is
\* final, and these followed by a space and the event's text when it is
\* interim.
C2SpeechFinalResolves ==
  (/\ lastStep.op = "Transcript"
   /\ lastStep.isSpeechFinal
   /\ ~lastStep.wasSettled
   /\ lastStep.txt # EmptyStr)
    => /\ outcome = "resolved"
       /\ settledBy = "speechFinal"
       /\ result = Trim(SpecPreview)

\* C2 witness: an interim speech-final event resolved a session that had a
\* finalized segment
C2Witness ==
  /\ lastStep.op = "Transcript"
  /\ lastStep.isSpeechFinal
  /\ ~lastStep.isFinal
  /\ ~lastStep.wasSettled
  /\ lastStep.txt # EmptyStr
  /\ stitched # EmptyStr
  /\ outcome = "resolved"
  /\ result = stitched \o <<" ">> \o lastStep.txt

\* C3 as stated: when the provider closes the open channel of an unsettled
\* session, the session resolves with the text committed so far, which is
\* empty only when no finalized segment was received.
C3CloseResolvesCommitted ==
  [][(opened /\ chan = "open" /\ chan' = "closed" /\ ~settled)
       => /\ outcome' = "resolved"
          /\ result' = committed
          /\ (result' = EmptyStr => stitched = EmptyStr)]_vars

\* C4 as stated: a provider error or an input-stream error that finds the
\* session unsettled rejects the promise with an error carrying the cause,
\* and no transcript is returned.
C4ErrorRejects ==
  [][\A e \in ErrVals \cup InputErrVals :
       (~settled /\ (ProviderError(e) \/ InputError(e)))
         => /\ outcome' = "rejected"
            /\ rejection'.isError
            /\ rejection'.msg = e.msg
            /\ result' = EmptyStr]_vars

\* C5 as stated: the idle timer never resolves the session earlier than
\* max(1200, T + 200) ms after the last transcript event, of whatever text.
C5Original ==
  [][(~settled /\ settledBy' = "idle")
       => now >= lastEventAt + SpecIdleMs]_vars

\* C5 amended: the idle timer never resolves the session earlier than
\* max(1200, T + 200) ms after the last transcript event with non-empty
\* text, and every such event leaves the pending timer due that full
\* duration after it.
C5IdleNotEarly ==
  /\ [](\A t \in timers : t.due = lastTextAt + SpecIdleMs)
  /\ [][(~settled /\ settledBy' = "idle")
          => now >= lastTextAt + SpecIdleMs]_vars

\* C5 witness: the idle timer resolved the session although an event with
\* empty text had arrived after the last event with text
C5Witness ==
  /\ settledBy = "idle"
  /\ outcome = "resolved"
  /\ lastEventAt > lastTextAt

\* C6 as stated: once a speech-final event (with text), an idle expiry with
\* non-empty preview, a provider close or a transport error has happened, at
\* whatever point after the session was started, the promise eventually
\* settles.
C6EventuallySettles == occurred ~> settled

------------------------------------------------------------------------------
(* Claims about overlap stitching *)

\* C7: overlap stitching is idempotent.  Stitching a segment onto the result
\* of stitching it gives the result of stitching it once, and "hello wor"
\* then "world" gives "hello world".
C7StitchIdempotent ==
  /\ sPc = "twice" => sTwice = sOnce
  /\ (sPc # "input" /\ sBase = HelloWor /\ sNext = World) => sOnce = HelloWorld

\* C7 witness: "world" was stitched twice onto "hello wor"
C7Witness ==
  /\ sPc = "twice"
  /\ sBase = HelloWor
  /\ sNext = World
  /\ sTwice = HelloWorld

------------------------------------------------------------------------------
(* Claims about computeChangeHints *)

NoHints == [added |-> <<>>, removed |-> <<>>, moved |-> <<>>]

\* number of lines of the new text, and the 0-based numbers of its lines
NewLineCount == Len(SplitLines(dNew))
NewLineNumbers == 0..(NewLineCount - 1)

\* the added spans that cover new-text line j
SpansCovering(j) ==
  {k \in 1..Len(dHints.added) :
     dHints.added[k][1] <= j /\ j <= dHints.added[k][2]}

\* new-text line j was consumed by the walk together with an identical old line
PairedNewLine(j) ==
  \E pr \in dPaired :
    /\ pr[2] = j
    /\ SplitLines(dOld)[pr[1] + 1] = SplitLines(dNew)[j + 1]

\* C8: computeChangeHints(X, X) returns empty added, removed and moved.
C8IdenticalTextsNoHints ==
  (dPc = "done" /\ dOld = dNew) => dHints = NoHints

\* C8 witness: the hints of a text of three or more lines against itself
C8Witness ==
  /\ dPc = "done"
  /\ dOld = dNew
  /\ NewLineCount >= 3
  /\ Cardinality(dPaired) = NewLineCount

\* C9 as stated: for an empty old text and a non-empty new text of m lines,
\* added is the one span (0, m - 1) and removed is empty.
C9EmptyOldAllAdded ==
  (dPc = "done" /\ dOld = EmptyStr /\ dNew # EmptyStr)
    => /\ dHints.added = <<<<0, NewLineCount - 1>>>>
       /\ dHints.removed = <<>>

\* C10 as stated, for the general case of two non-empty texts: every new-text
\* line is either paired by the walk with an identical old-text line, or lies
\* in exactly one added span.
C10NewLinesAccounted ==
  (dPc = "done" /\ dOld # EmptyStr /\ dNew # EmptyStr)
    => \A j \in NewLineNumbers :
         \/ PairedNewLine(j) /\ SpansCovering(j) = {}
         \/ ~PairedNewLine(j) /\ Cardinality(SpansCovering(j)) = 1

\* number of lines of the old text, and the sum of the counts of removed
OldLineCount == Len(SplitLines(dOld))

RECURSIVE SumCounts(_)
SumCounts(removed) ==
  IF removed = <<>> THEN 0
  ELSE Head(removed).count + SumCounts(Tail(removed))

\* C11 as stated: the counts of the removed entries sum to the number of
\* old-text lines that the walk did not match to a new-text line, old lines
\* left over after the last new line included.
C11RemovedCountsSum ==
  dPc = "done"
    => SumCounts(dHints.removed) = OldLineCount - Cardinality(dPaired)

\* the lines of a text are pairwise distinct
DistinctLines(lines) ==
  \A p, q \in 1..Len(lines) : lines[p] = lines[q] => p = q

\* the new text is the old text without the k lines that follow its first p
InteriorDeletion(p, k) ==
  LET A == SplitLines(dOld)
  IN /\ p >= 1 /\ k >= 1 /\ p + k < Len(A)
     /\ SplitLines(dNew) = SubSeq(A, 1, p) \o SubSeq(A, p + k + 1, Len(A))

\* C12: deleting k >= 1 lines after the first p >= 1 lines of a text with
\* pairwise distinct lines, with at least one line surviving after them,
\* gives the one removed entry (anchor p, count k) and no added span; old
\* "a\nb\nc" and new "a\nc" give removed = [(anchor 1, count 1)].
C12InteriorDeletion ==
  /\ (dPc = "done" /\ DistinctLines(SplitLines(dOld)))
       => \A p \in 1..OldLineCount, k \in 1..OldLineCount :
            InteriorDeletion(p, k)
              => /\ dHints.removed = <<[anchor |-> p, count |-> k]>>
                 /\ dHints.added = <<>>
  /\ (dPc = "done" /\ dOld = TextABC /\ dNew = TextAC)
       => dHints.removed = <<[anchor |-> 1, count |-> 1]>>

\* C12 witness: two lines were deleted from the interior of a four-line text
C12Witness ==
  /\ dPc = "done"
  /\ DistinctLines(SplitLines(dOld))
  /\ InteriorDeletion(1, 2)
  /\ dHints.removed = <<[anchor |-> 1, count |-> 2]>>

\* C13 as stated: for old "x\ny\nfoo\nbar\nz" and new "x\nfoo\nbar\ny\nz",
\* moved contains the block foo/bar at new-text lines 1-2 with origin lines
\* 2-3 of the old text.
C13Original ==
  (dPc = "done" /\ dOld = TextMoveOld /\ dNew = TextMoveNew)
    => \E k \in 1..Len(dHints.moved) :
         dHints.moved[k] = [start |-> 1, end |-> 2, fromStart |-> 2, fromEnd |-> 3]

\* C13 amended: for these two texts the walk matches foo/bar in place and
\* adds the line y after them, so moved is the one block y at new-text line 3
\* with origin line 1 of the old text, where the old text has that block.
C13MovedBlock ==
  (dPc = "done" /\ dOld = TextMoveOld /\ dNew = TextMoveNew)
    => /\ dHints.added = <<<<3, 3>>>>
       /\ dHints.removed = <<[anchor |-> 1, count |-> 1]>>
       /\ dHints.moved =
            <<[start |-> 3, end |-> 3, fromStart |-> 1, fromEnd |-> 1]>>
       /\ \A k \in 1..Len(dHints.moved) :
            LET mv == dHints.moved[k]
            IN SubSeq(SplitLines(dOld), mv.fromStart + 1, mv.fromEnd + 1)
                 = SubSeq(SplitLines(dNew), mv.start + 1, mv.end + 1)

\* C13 witness: the hints of the block move were computed and one block is
\* flagged
C13Witness ==
  /\ dPc = "done"
  /\ dOld = TextMoveOld
  /\ dNew = TextMoveNew
  /\ Len(dHints.moved) = 1

------------------------------------------------------------------------------
(* Claims about replaceDocumentWithHighlight and the loop of mantra.start *)

\* the step in which editor.edit settles and the call runs to its end
EditSettles == aPc = "editing" /\ aPc' = "idle"

C15NoLeftoverAfterNextApply ==
  (aPc = "idle" /\ aCall >= 2)
    => /\ \A ty \in aTypes : ty.call = aCall
       /\ \A d \in aDecos : d.call = aCall

\* C16: the decoration types of a call are created three at a time, every
\* live one has its dispose timer pending, none is disposed before that timer
\* is due, and after the last call of a run every decoration type is
\* eventually disposed: from some point on none is live.
C16EventuallyReleased ==
  /\ [](\A c \in 1..aCall :
          /\ Cardinality({ty \in aTypes : ty.call = c}) \in {0, 3}
          /\ (\E ty \in aTypes : ty.call = c)
               => \E t \in aTimers : t.call = c)
  /\ [][\A ty \in aTypes :
          ty \notin aTypes'
            => \E t \in aTimers : t.call = ty.call /\ t.left = 0]_vars
  /\ <>[](aTypes = {})

\* C16 witness: two calls acquired their decoration types and all of them
\* have been disposed
C16Witness ==
  /\ aCall = 2
  /\ aPc = "idle"
  /\ aOutcome = "applied"
  /\ aTypes = {}
  /\ aDecos = {}
  /\ aTimers = {}

\* C17 as stated: when the edit is not applied, the failure is surfaced, no
\* decoration type is created, no decoration is set and the document is
\* untouched.
C17FailedEditNoDecorations ==
  [][(EditSettles /\ aOutcome' # "applied")
       => /\ aTypes' = aTypes
          /\ aDecos' = aDecos
          /\ aDoc' = aDoc
          /\ lMessage' = "Stream handler error"]_vars

\* C18: in an iteration whose transcribeStream rejected, no command is
\* executed, model.decide is not called, replaceDocumentWithHighlight is not
\* called and no decoration type is created; the step that handles the
\* rejection leaves the document and the decorations as they are.
C18FailedSessionChangesNothing ==
  /\ [](itFailed => /\ ~itCmd /\ ~itLlm /\ ~itReplace /\ ~itAcquired
                    /\ lPc \in {"loop", "stopped"}
                    /\ aPc = "idle")
  /\ [][itFailed' => /\ aDoc' = aDoc
                     /\ aCall' = aCall
                     /\ aTypes' \subseteq aTypes
                     /\ aDecos' \subseteq aDecos]_vars

\* C18 witness: a session failed in the iteration after one that replaced the
\* document
C18Witness ==
  /\ itFailed
  /\ lIter = 2
  /\ aCall = 1
  /\ aOutcome = "applied"
  /\ lMessage = "Stream handler error"

\* C19: replaceDocumentWithHighlight is called only from the dispatch of a
\* result of type modification with an active editor, in an iteration whose
\* transcript is non-empty, is not a pause phrase and was not handled as a
\* command; results of type command or question never call it.
C19ReplaceOnlyForModification ==
  /\ [][aCall' # aCall
          => /\ lPc = "deciding"
             /\ lResult' = "modification"
             /\ lEditor
             /\ itReplace']_vars
  /\ [](itReplace => /\ lResult = "modification"
                     /\ lEditor
                     /\ itLlm
                     /\ ~itFailed
                     /\ ~itHandled
                     /\ lTranscript # <<>>
                     /\ ~HasPausePhrase(lTranscript))
  /\ [](aCall <= lIter)

\* C19 witness: a modification replaced the document in the iteration after
\* one that executed a command
C19Witness ==
  /\ itReplace
  /\ lResult = "modification"
  /\ lIter = 2
  /\ aCall = 1
  /\ aOutcome = "applied"
  /\ aDoc = aNew

------------------------------------------------------------------------------
(* Claims about starting a session while another is open *)

\* C20 as stated: when a new recorder is spawned while the previous session
\* is still unsettled on an open provider connection, that connection has
\* been closed and its idle timer cancelled, and from then on the previous
\* session does not resolve with a transcript.
C20PreviousSessionTornDown ==
  /\ [][(rSpawned' > rSpawned /\ chan = "open" /\ ~settled)
          => /\ chan' = "closed"
             /\ closeCalls' >= 1
             /\ timers' = {}]_vars
  /\ [][(rSpawned >= 2 /\ outcome = "pending")
          => ~(outcome' = "resolved" /\ result' # EmptyStr)]_vars

------------------------------------------------------------------------------
(* Claims about settlement, the idle timer and the preview *)

\* C23 as stated: a transcript event handled after the session has settled
\* changes neither committed nor the preview, arms no timer and does not
\* invoke onInterim.
C23LateEventIsNoOp ==
  [][(settled /\ nEvents' = nEvents + 1)
       => /\ committed' = committed
          /\ utterance' = utterance
          /\ timers' = timers
          /\ idleTimer' = idleTimer
          /\ lastStep'.interim = <<>>]_vars

\* C24 as stated: in every state where the session is settled, no idle timer
\* of the session is pending.
C24SettledNoTimer == settled => timers = {}

\* C25: at most one idle timer is pending, and it is the one idleTimer
\* refers to.
C25AtMostOneTimer ==
  /\ Cardinality(timers) <= 1
  /\ \A t \in timers : t.id = idleTimer

\* C25 witness: the timer has been re-armed and one timer is pending
C25Witness ==
  /\ nextTimerId = 3
  /\ Cardinality(timers) = 1
  /\ ~settled

\* C26 as stated: in the handling of a transcript event with text, arming
\* the idle timer is the last thing the handler does, after the update of
\* committed and preview, after a speech-final resolution and after onInterim.
C26RearmIsLast ==
  (lastStep.op = "Transcript" /\ lastStep.armed)
    => lastStep.order[Len(lastStep.order)] = "arm"

\* the step in which the callback of an idle timer runs
IdleFires == nEvents' = nEvents /\ \E t \in timers : timers' = timers \ {t}

\* the preview the specification describes: the stitched finalized segments,
\* followed by a space and the latest interim text when there is one
ExpectedPreview ==
  IF lastTxt = EmptyStr THEN stitched
  ELSE IF stitched = EmptyStr THEN lastTxt
  ELSE stitched \o <<" ">> \o lastTxt

\* C27: when the idle timer fires on an unsettled session with a non-empty
\* preview, the session resolves with the trimmed preview (committed text
\* plus the latest interim text); when it fires on a settled session it
\* changes nothing.
C27IdleResolvesPreview ==
  /\ [][(IdleFires /\ ~settled /\ Trim(utterance) # EmptyStr)
          => /\ settled'
             /\ outcome' = "resolved"
             /\ settledBy' = "idle"
             /\ result' = Trim(ExpectedPreview)]_vars
  /\ [][(IdleFires /\ settled)
          => /\ UNCHANGED promiseVars
             /\ UNCHANGED <<finalTranscript, utterance, committed>>]_vars

\* C27 witness: the idle timer resolved the session with a finalized segment
\* followed by an interim one
C27Witness ==
  /\ settledBy = "idle"
  /\ outcome = "resolved"
  /\ stitched # EmptyStr
  /\ lastTxt # EmptyStr
  /\ result = stitched \o <<" ">> \o lastTxt

C29CommitIsLongestOverlapStitch ==
  sPc # "input"
    => /\ sOnce = RefStitch(sBase, sNext)
       /\ sBase = EmptyStr => sOnce = sNext

\* C29 witness: a segment that overlaps the committed text by two or more
\* characters, and not wholly, was committed
C29Witness ==
  /\ sPc = "once"
  /\ LongestOverlap(sBase, sNext) >= 2
  /\ LongestOverlap(sBase, sNext) < Len(sNext)
  /\ Len(sOnce) = Len(sBase) + Len(sNext) - LongestOverlap(sBase, sNext)

\* the state after the handling of an interim event with non-empty text
AfterInterim ==
  /\ lastStep.op = "Transcript"
  /\ ~lastStep.isFinal
  /\ lastStep.txt # EmptyStr

\* C30 as stated: after an interim event with text x the preview is
\* committed concatenated with x, and what onInterim received is that preview.
C30Original ==
  AfterInterim
    => /\ utterance = committed \o lastStep.txt
       /\ \A k \in 1..Len(lastStep.interim) : lastStep.interim[k] = utterance

\* C30 amended: after an interim event with text x the preview is x when
\* nothing is committed, and committed, one space and x otherwise; committed
\* is unchanged, and what onInterim received is that preview.
C30InterimPreview ==
  AfterInterim
    => /\ utterance = IF stitched = EmptyStr THEN lastStep.txt
                      ELSE stitched \o <<" ">> \o lastStep.txt
       /\ committed = stitched
       /\ \A k \in 1..Len(lastStep.interim) : lastStep.interim[k] = utterance

\* C30 witness: an interim event on committed text; onInterim received the
\* committed text, a space and the interim text
C30Witness ==
  /\ AfterInterim
  /\ stitched = <<"a">>
  /\ lastStep.txt = <<"b">>
  /\ utterance = <<"a", " ", "b">>
  /\ lastStep.interim = << <<"a", " ", "b">> >>

------------------------------------------------------------------------------
(* Claims about the guard for sensitive files *)

\* C22: in an iteration whose active file the guard flagged, model.decide is
\* called only when the answer to the warning was 'Proceed once'; for any
\* other answer, or a dismissed dialog, it is not called in that iteration.
C22SensitiveNeedsProceedOnce ==
  /\ []((itSensitive /\ itLlm) => itChoice = "Proceed once")
  /\ []((itSensitive /\ itChoice # "Proceed once")
          => /\ ~itLlm
             /\ lPc \notin {"deciding", "applying"}
             /\ ~itReplace)
  /\ [][(lPc' = "deciding" /\ lPc # "deciding")
          => (itSensitive' => itChoice' = "Proceed once")]_vars

\* C22 witness: the file was flagged, the user answered 'Proceed once', and
\* the answer of model.decide was applied to the document
C22Witness ==
  /\ itSensitive
  /\ itChoice = "Proceed once"
  /\ itLlm
  /\ itReplace
  /\ aOutcome = "applied"

\* C22 witness of the refusal: the dialog on a flagged file was dismissed
\* and the iteration ended without a call of model.decide
C22Blocked ==
  /\ itSensitive
  /\ itChoice = "dismissed"
  /\ ~itLlm
  /\ lPc = "loop"
  /\ lMessage = "Mantra blocked LLM"

------------------------------------------------------------------------------
(* Claims about the commands *)

\* the loops of mantra.start that are between the loop test and the end of
\* an iteration
RunningLoops ==
  {i \in 1..MaxLoops : cLoop[i] \in {"spawnWait", "callback", "tail"}}

\* the recorder processes that were spawned, got no signal and have not exited
LiveRecorders == (1..rSpawned) \ (rKilled \cup cExited)

\* while listening is not paused, at most one loop is running
AtMostOneLoop == ~cPaused => Cardinality(RunningLoops) <= 1

\* at most one recorder process is live
AtMostOneRecorder == Cardinality(LiveRecorders) <= 1

\* C21 as stated: under any interleaving of mantra.start, mantra.pause and
\* mantra.resume with the awaits of a running loop, there is never more than
\* one listening loop running and never more than one live recorder process.
C21OneLoopOneRecorder == AtMostOneLoop /\ AtMostOneRecorder

------------------------------------------------------------------------------
(* Claims about the frame of committed *)

\* s is a prefix of t
IsPrefixOf(s, t) == Len(s) <= Len(t) /\ SubSeq(t, 1, Len(s)) = s

\* the step is the handling of a final transcript event with text
FinalEventStep ==
  /\ nEvents' = nEvents + 1
  /\ lastStep'.op = "Transcript"
  /\ lastStep'.isFinal
  /\ lastStep'.txt # EmptyStr

\* C31: committed is append-only: a final event leaves the previous committed
\* value as a prefix of the new one; interim events, events with empty text,
\* idle-timer firings and input-stream events leave committed unchanged.
C31CommittedAppendOnly ==
  [][IF FinalEventStep THEN IsPrefixOf(committed, committed')
                       ELSE committed' = committed]_vars

\* C31 witness: a final event extended a non-empty committed text
C31Witness ==
  /\ lastStep.op = "Transcript"
  /\ lastStep.isFinal
  /\ lastStep.txt # EmptyStr
  /\ nEvents = 2
  /\ Len(committed) > Len(lastStep.txt)
  /\ committed = stitched

------------------------------------------------------------------------------
(* Claims about the well-formedness of the hints *)

\* C32: every added span (start, end) satisfies 0 <= start <= end <= m - 1
\* in lines of the new text, and the spans are disjoint and in strictly
\* increasing order.
C32AddedWellFormed ==
  dPc = "done"
    => LET a == dHints.added
           m == Len(SplitLines(dNew))
       IN /\ \A k \in 1..Len(a) :
               0 <= a[k][1] /\ a[k][1] <= a[k][2] /\ a[k][2] <= m - 1
          /\ \A k \in 1..(Len(a) - 1) : a[k][2] < a[k + 1][1]

\* C32 witness: two added spans, separated by an unchanged line
C32Witness ==
  /\ dPc = "done"
  /\ dOld = TextAB
  /\ dNew = TextBAAB
  /\ dHints.added = << <<0, 0>>, <<2, 2>> >>

\* C33 as stated: a non-empty old text and an empty new text give no hints:
\* added, removed and moved are empty.
C33EmptyNewNoHints ==
  (dPc = "done" /\ dOld # EmptyStr /\ dNew = EmptyStr)
    => /\ dHints.added = <<>>
       /\ dHints.removed = <<>>
       /\ dHints.moved = <<>>

\* the number of line breaks before offset off of text: the 0-based line on
\* which that offset lies
LineOfOffset(text, off) ==
  Cardinality({k \in 1..off : text[k] = "\n"})

\* block occurs in text at an offset that lies on the given line
OccursOnLine(text, block, line) ==
  \E off \in 0..(Len(text) - Len(block)) :
    /\ SubSeq(text, off + 1, off + Len(block)) = block
    /\ LineOfOffset(text, off) = line

\* C34: every moved entry is an added span; the text of the span is not
\* whitespace-only and occurs verbatim in the old text beginning on line
\* fromStart; fromEnd - fromStart = end - start; and fromStart and start
\* differ by more than one.
C34MovedEntriesMoved ==
  dPc = "done"
    => \A k \in 1..Len(dHints.moved) :
         LET mv == dHints.moved[k]
             B == SplitLines(dNew)
             block == JoinLines(SubSeq(B, mv.start + 1, mv.end + 1))
         IN /\ \E q \in 1..Len(dHints.added) :
                 dHints.added[q] = <<mv.start, mv.end>>
            /\ \E c \in 1..Len(block) : block[c] \notin {" ", "\t", "\n", "\r"}
            /\ OccursOnLine(dOld, block, mv.fromStart)
            /\ mv.fromEnd - mv.fromStart = mv.end - mv.start
            /\ Abs(mv.fromStart - mv.start) > 1

\* C34 witness: the line a, added at the top of the new text, is flagged as
\* moved from the third line of the old text
C34Witness ==
  /\ dPc = "done"
  /\ dOld = <<"\n", "\n", "a">>
  /\ dNew = <<"a", "\n", "\n">>
  /\ dHints.added = << <<0, 0>> >>
  /\ dHints.moved =
       <<[start |-> 0, end |-> 0, fromStart |-> 2, fromEnd |-> 2]>>

------------------------------------------------------------------------------
(* Claims about the decoration of an empty document *)

\* C35 as stated: when the document is empty after the replacement, no
\* decoration type is created, no decoration is applied and no dispose timer
\* is started.
C35EmptyDocumentNoDecoration ==
  [][(lPc = "applying" /\ lPc' = "loop" /\ aOutcome' = "applied"
        /\ aDoc' = EmptyStr)
       => /\ aTypes' = aTypes
          /\ aDecos' = aDecos
          /\ aTimers' = aTimers]_vars

------------------------------------------------------------------------------
(* Claims about the cleanup of startMicStream *)

\* the step in which the call of startMicStream made by loop id returns
CallReturns(id) == cLoop[id] = "callback" /\ cLoop'[id] = "tail"

\* C36 as stated: when startMicStream returns, the recorder process spawned
\* by that call has been sent a terminate signal or has already exited.
C36RecorderCleanedUp ==
  [][\A id \in 1..MaxLoops :
       CallReturns(id) => cChild[id] \in (rKilled' \cup cExited')]_vars

\* C37 as stated: the finally block of one call of startMicStream terminates
\* and unregisters only the process this call spawned, never the process of
\* an overlapping later call.  (With __mantraPaused false after the step, the
\* callback itself has not called pauseRecording.)
C37CleanupOnlyOwnRecorder ==
  [][\A id \in 1..MaxLoops :
       (CallReturns(id) /\ ~cPaused')
         => /\ (rKilled' \ rKilled) \subseteq {cChild[id]}
            /\ rCur' # rCur => rCur = cChild[id]]_vars

------------------------------------------------------------------------------
(* Claims about pausing and about the progress notification *)

\* C38 as stated: once listening is paused, and until mantra.start or
\* mantra.resume is invoked, the loop executes no mapped or text command,
\* makes no LLM call, applies no document modification and starts no new
\* microphone session.
C38NothingAfterPause ==
  [][lPaused
       => /\ itCmd' => itCmd
          /\ itLlm' => itLlm
          /\ itReplace' => itReplace
          /\ aDoc' # aDoc => lPc # "applying"
          /\ lIter' = lIter]_vars

\* C39 as stated: the notification opened by an iteration is completed;
\* completeProgress is reachable from the callback of its own iteration only,
\* so it is completed by the time the iteration is over.
C39ProgressCompleted == lPc \in {"loop", "stopped"} => ~itProgress

==============================================================================
